---- MODULE Spec2Model ----
(***************************************************************************)
(* The asynchronous task pipeline of the orchestrator service: the         *)
(* task_queue / jobs / optimizations tables, the two request handlers that *)
(* enqueue work (create_job, refine_job), and the polling worker           *)
(* (run_worker / process_task) with its storage errors and cancellation.   *)
(*                                                                         *)
(* A worker is modelled at the granularity of its await points: every      *)
(* value of pc names the call the coroutine is suspended on.               *)
(*                                                                         *)
(* ResumeOptimizer.optimize is modelled call by call of the generation     *)
(* backend (SpecOptimizer), cosine_similarity as a function applied to     *)
(* every pair of vectors (SpecCosine), and ResumeMatcher.rank_candidates   *)
(* call by call of the embedding backend (SpecMatcher).  SpecRuns runs     *)
(* optimize() for a job and then for its refinement on the one             *)
(* ResumeOptimizer of the worker, SpecRequests splits refine_job at its     *)
(* awaits so that two requests overlap, and SpecNoCancel is the worker     *)
(* that is never cancelled, under weak fairness.                           *)
(***************************************************************************)
EXTENDS Integers, Sequences, FiniteSets, TLC

\* ---------------------------------------------------------------- bounds
MaxTasks == 3        \* rows ever inserted into task_queue
MaxJobs == 2         \* rows ever inserted into jobs
MaxFaults == 2       \* calls that raise (storage or pipeline errors) in one run
MaxDim == 2          \* longest vector passed to cosine_similarity
MaxCandidates == 2   \* longest list passed to rank_candidates
MaxRequests == 2     \* calls of refine_job for one job that overlap

\* ------------------------------------------------------------- constants
NULL == "NULL"
Errors == {"err_a", "err_b"}     \* texts str(e) of the exceptions a call may raise

TaskStatusEnum == {"queued", "processing", "complete", "failed"}
JobStatusEnum == {"queued", "processing", "complete", "failed"}
TaskTypeEnum == {"optimize", "embed_resume", "embed_job"}

VARIABLES
    task_queue,        \* committed rows of table task_queue, index = row id
    jobs,              \* committed rows of table jobs, index = row id
    optimizations,     \* committed rows of table optimizations
    now,               \* the database clock behind server_default now()
    pc,                \* per worker: the await point run_worker is suspended on
    task,              \* per worker: id of the row selected by the poll (0: none)
    attempts_read,     \* per worker: task_row.attempts as loaded by the poll
    exc,               \* per worker: text of the exception caught by process_task
    session_new,       \* per worker: optimization rows flushed, not committed
    session_job,       \* per worker: job ids with a flushed, uncommitted status update
    cancel_requested,  \* per worker: task.cancel() was called and not yet delivered
    faults,            \* number of calls that have raised so far
    \* history of the execution, read only by the properties
    handed,            \* per row: how many times it was passed to process_task
    claim_order,       \* row ids in the order their claim was committed
    returned,          \* rows for which process_task has returned
    raised,            \* per row: text of the error raised inside the try block
    recovered,         \* rows whose failure marking was committed
    completed_by,      \* rows whose cycle committed the job status 'complete'
    stranded,          \* rows that were being executed when the worker was cancelled
    \* the ResumeOptimizer object of the worker and the frame of optimize()
    metrics,           \* self.metrics
    stage,             \* the call optimize() is suspended on ("idle": not running)
    attempt,           \* the loop variable of the retry loop that is running
    payload,           \* what optimize() read from the task payload
    entities,          \* local entities
    alignment,         \* local alignment
    core_result,       \* local core_result
    result,            \* the pair (result, metrics) returned to process_task
    stage_log,         \* history: per stage, the calls of generate_response made
    metrics_objects,   \* history: the metrics objects that runs of optimize() returned
    \* requests in progress
    refining,          \* per job: the calls of refine_job between their check and commit
    \* one call of cosine_similarity
    cosine,            \* its arguments and, once it has run, its outcome
    \* one call of ResumeMatcher.rank_candidates
    rank_pc,           \* the call rank_candidates is suspended on
    job_description,   \* argument job_description
    n_candidates,      \* len(candidates)
    index,             \* position of the loop over candidates (from 1)
    job_embedding,     \* local job_embedding of calculate_match_score
    scores,            \* local scores of calculate_match_score
    score_data,        \* what the last call of calculate_match_score returned
    results,           \* local results of rank_candidates
    ranked,            \* what rank_candidates returned
    requested          \* history: the calls of get_embedding of one calculate_match_score

vars == << task_queue, jobs, optimizations, now, pc, task, attempts_read, exc,
           session_new, session_job, cancel_requested, faults,
           handed, claim_order, returned, raised, recovered, completed_by, stranded,
           metrics, stage, attempt, payload, entities, alignment, core_result,
           result, stage_log, metrics_objects, refining,
           cosine, rank_pc, job_description, n_candidates, index,
           job_embedding, scores, score_data, results, ranked, requested >>

optimizer_vars == << metrics, stage, attempt, payload, entities, alignment,
                     core_result, result, stage_log, metrics_objects >>

db_vars == << task_queue, jobs, optimizations, now >>
hist_vars == << handed, claim_order, returned, raised, recovered, completed_by, stranded >>

Workers == DOMAIN pc
TaskIds == 1..Len(task_queue)
JobIds == 1..Len(jobs)

\* ------------------------------------------------------------ table rows
\* TaskQueue(task_type=..., payload=...) with the column defaults
NewTaskRow(task_type, job_id, created_at) ==
    [ task_type |-> task_type, job_id |-> job_id, status |-> "queued",
      attempts |-> 0, last_error |-> NULL, created_at |-> created_at ]

\* Job(...) with the column default of status
NewJobRow == [ status |-> "queued" ]

\* ------------------------------------------------------------------ poll
QueuedOptimize(q) ==
    { t \in 1..Len(q) : q[t].status = "queued" /\ q[t].task_type = "optimize" }

SelectNewest(q) ==
    { t \in QueuedOptimize(q) :
        \A u \in QueuedOptimize(q) : q[u].created_at <= q[t].created_at }

\* the rows the statement of the poll may return: WHERE status = queued AND
\* task_type = optimize ORDER BY created_at LIMIT 1 (any of the oldest on a tie)
SelectNext(q) ==
    { t \in QueuedOptimize(q) :
        \A u \in QueuedOptimize(q) : q[t].created_at <= q[u].created_at }


\* ------------------------------------------------------------- optimizer
RetriesOneMore == 3 + 1

MAX_RETRIES == 3

\* the calls of generate_response that optimize() makes, by the stage making them
Stages == {"extract_entities", "analyze_alignment", "rewrite", "translate"}

\* ReliabilityMetrics() with the field defaults (latency_seconds, a wall-clock
\* reading, is left out)
ReliabilityMetrics ==
    [ invalid_json_attempts |-> 0, total_attempts |-> 0, last_run_valid |-> TRUE ]

\* Python's None and a value that is present, for the locals that start as None
None == << >>
Some(v) == << v >>
Value(o) == o[1]

NoCalls == [ s \in Stages |-> [ calls |-> 0, raises |-> 0, succeeded_at |-> 0,
                                answer |-> None ] ]

\* ResumeOptimizer.__init__, and no call of optimize() in progress
OptimizerInit ==
    /\ metrics = ReliabilityMetrics
    /\ stage = "idle"
    /\ attempt = 0
    /\ payload = None
    /\ entities = None
    /\ alignment = None
    /\ core_result = None
    /\ result = None
    /\ stage_log = NoCalls
    /\ metrics_objects = << >>

\* --------------------------------------------------------------- matcher
rank_vars == << rank_pc, job_description, n_candidates, index,
                job_embedding, scores, score_data, results, ranked, requested >>

matcher_vars == << cosine, rank_pc, job_description, n_candidates, index,
                   job_embedding, scores, score_data, results, ranked, requested >>

\* scores = {} at the start of calculate_match_score; a similarity is the
\* exact fraction num / den
NoScores == [ k \in {"skills", "experience", "education"} |-> [ num |-> 0, den |-> 1 ] ]

\* no call of rank_candidates has been made
RankIdle ==
    /\ rank_pc = "idle"
    /\ job_description = << >>
    /\ n_candidates = 0
    /\ index = 0
    /\ job_embedding = << >>
    /\ scores = NoScores
    /\ score_data = None
    /\ results = << >>
    /\ ranked = None
    /\ requested = << >>

\* no call of the matcher has been made
MatcherInit == cosine = None /\ RankIdle

\* --------------------------------------------------------------- startup
InitWith(workers) ==
    /\ OptimizerInit
    /\ task_queue = << >>
    /\ jobs = << >>
    /\ optimizations = << >>
    /\ now = 0
    /\ pc = [w \in workers |-> "select"]
    /\ task = [w \in workers |-> 0]
    /\ attempts_read = [w \in workers |-> 0]
    /\ exc = [w \in workers |-> NULL]
    /\ session_new = [w \in workers |-> << >>]
    /\ session_job = [w \in workers |-> {}]
    /\ cancel_requested = [w \in workers |-> FALSE]
    /\ faults = 0
    /\ handed = << >>
    /\ claim_order = << >>
    /\ returned = {}
    /\ raised = << >>
    /\ recovered = {}
    /\ completed_by = {}
    /\ stranded = {}
    /\ refining = [job_id \in 1..MaxJobs |-> 0]

\* lifespan() has created the one worker task of the service
Init == InitWith({1}) /\ MatcherInit

\* two service instances polling the same database
InitTwoWorkers == InitWith({1, 2}) /\ MatcherInit

\* ------------------------------------------------------ request handlers
\* Repository.enqueue_task: INSERT a row; created_at is the server's now(),
\* which has moved on since the previous insert
EnqueueTask(task_type, job_id) ==
    /\ now' = now + 1
    /\ task_queue' = Append(task_queue, NewTaskRow(task_type, job_id, now'))
    /\ handed' = Append(handed, 0)
    /\ raised' = Append(raised, NULL)

\* POST /jobs: insert the job, enqueue its optimize task, commit
CreateJob ==
    /\ Len(jobs) < MaxJobs
    /\ Len(task_queue) < MaxTasks
    /\ jobs' = Append(jobs, NewJobRow)
    /\ EnqueueTask("optimize", Len(jobs) + 1)
    /\ UNCHANGED << optimizations, pc, task, attempts_read, exc, session_new,
                    session_job, cancel_requested, faults,
                    claim_order, returned, recovered, completed_by, stranded >>

RefineJobRequeue(job_id) ==
    /\ job_id \in JobIds
    /\ jobs[job_id].status = "complete"
    /\ \E t \in TaskIds :
          /\ task_queue[t].job_id = job_id
          /\ task_queue[t].status # "queued"
          /\ task_queue' = [task_queue EXCEPT ![t].status = "queued"]
    /\ jobs' = [jobs EXCEPT ![job_id].status = "queued"]
    /\ UNCHANGED << optimizations, now, pc, task, attempts_read, exc, session_new,
                    session_job, cancel_requested, faults, hist_vars >>

RefineJobAnyStatus(job_id) ==
    /\ job_id \in JobIds
    /\ Len(task_queue) < MaxTasks
    /\ jobs' = [jobs EXCEPT ![job_id].status = "queued"]
    /\ EnqueueTask("optimize", job_id)
    /\ UNCHANGED << optimizations, pc, task, attempts_read, exc, session_new,
                    session_job, cancel_requested, faults,
                    claim_order, returned, recovered, completed_by, stranded >>

\* POST /jobs/{job_id}/refine: only for a complete job; job back to queued,
\* a new optimize task enqueued, one commit
RefineJob(job_id) ==
    /\ job_id \in JobIds
    /\ jobs[job_id].status = "complete"
    /\ Len(task_queue) < MaxTasks
    /\ jobs' = [jobs EXCEPT ![job_id].status = "queued"]
    /\ EnqueueTask("optimize", job_id)
    /\ UNCHANGED << optimizations, pc, task, attempts_read, exc, session_new,
                    session_job, cancel_requested, faults,
                    claim_order, returned, recovered, completed_by, stranded >>


\* Repository.get_latest_optimization_for_job: the newest record of the job,
\* None when it has no record (records are appended in the order of commit)
GetLatestOptimizationForJob(job_id) ==
    LET records == { i \in DOMAIN optimizations : optimizations[i].job_id = job_id }
    IN  IF records = {} THEN None
        ELSE Some(optimizations[CHOOSE i \in records : \A k \in records : k <= i])

\* GET /jobs/{job_id}: the job with its result, fetched only when it is complete
GetJob(job_id) ==
    [ status |-> jobs[job_id].status,
      result |-> IF jobs[job_id].status = "complete"
                 THEN GetLatestOptimizationForJob(job_id)
                 ELSE None ]
\* refine_job up to its awaits of the storage: get_job_for_user returned the
\* job and its status is 'complete' (else 404 or 400, and nothing is written)
RefineJobRead(job_id) ==
    /\ job_id \in JobIds
    /\ jobs[job_id].status = "complete"
    /\ refining[job_id] < MaxRequests
    /\ refining' = [refining EXCEPT ![job_id] = @ + 1]
    /\ UNCHANGED << db_vars, pc, task, attempts_read, exc, session_new, session_job,
                    cancel_requested, faults, hist_vars >>

\* the rest of refine_job: update_job_status(job_id, queued), enqueue_task and
\* the commit of both
RefineJobCommit(job_id) ==
    /\ job_id \in JobIds
    /\ refining[job_id] > 0
    /\ Len(task_queue) < MaxTasks
    /\ refining' = [refining EXCEPT ![job_id] = @ - 1]
    /\ jobs' = [jobs EXCEPT ![job_id].status = "queued"]
    /\ EnqueueTask("optimize", job_id)
    /\ UNCHANGED << optimizations, pc, task, attempts_read, exc, session_new,
                    session_job, cancel_requested, faults,
                    claim_order, returned, recovered, completed_by, stranded >>

\* ---------------------------------------------------------------- worker
\* the coroutine resumes normally from the call it awaits
Resumes(w, label) == pc[w] = label /\ ~cancel_requested[w]

\* the awaited call raises an Exception
Fault == faults < MaxFaults /\ faults' = faults + 1

\* session.close() in get_async_db: whatever was flushed and not committed is lost
CloseSession(w) ==
    /\ session_new' = [session_new EXCEPT ![w] = << >>]
    /\ session_job' = [session_job EXCEPT ![w] = {}]

\* the locals of one iteration of the loop go out of scope
EndCycle(w) ==
    /\ task' = [task EXCEPT ![w] = 0]
    /\ attempts_read' = [attempts_read EXCEPT ![w] = 0]
    /\ exc' = [exc EXCEPT ![w] = NULL]

WorkerLoopErrorExits == "stopped"

\* except Exception in run_worker: log, asyncio.sleep(5), next iteration
WorkerLoopError == "error_sleep"

\* await db_session.execute(stmt); scalar_one_or_none(); the branch on task_row
Select(w) ==
    /\ Resumes(w, "select")
    /\ \/ /\ \E t \in SelectNext(task_queue) :
                /\ task' = [task EXCEPT ![w] = t]
                /\ attempts_read' = [attempts_read EXCEPT ![w] = task_queue[t].attempts]
          /\ pc' = [pc EXCEPT ![w] = "claim_commit"]
          /\ UNCHANGED faults
       \/ /\ SelectNext(task_queue) = {}
          /\ pc' = [pc EXCEPT ![w] = "idle_sleep"]
          /\ UNCHANGED << task, attempts_read, faults >>
       \/ /\ Fault
          /\ pc' = [pc EXCEPT ![w] = WorkerLoopError]
          /\ UNCHANGED << task, attempts_read >>
    /\ UNCHANGED << db_vars, exc, session_new, session_job, cancel_requested,
                    hist_vars >>

ClaimedRowKeepsStatus(row, attempts) ==
    [row EXCEPT !.attempts = attempts + 1]

ClaimedRowKeepsAttempts(row, attempts) ==
    [row EXCEPT !.status = "processing"]

\* task_row.status = processing; task_row.attempts += 1 on the loaded object
ClaimedRow(row, attempts) ==
    [row EXCEPT !.status = "processing", !.attempts = attempts + 1]

\* await db_session.commit() of the claim, then the call of process_task
ClaimCommit(w) ==
    /\ Resumes(w, "claim_commit")
    /\ \/ /\ task_queue' = [task_queue EXCEPT
                              ![task[w]] = ClaimedRow(@, attempts_read[w])]
          /\ handed' = [handed EXCEPT ![task[w]] = @ + 1]
          /\ claim_order' = Append(claim_order, task[w])
          /\ pc' = [pc EXCEPT ![w] = "optimize"]
          /\ attempts_read' = [attempts_read EXCEPT ![w] = 0]
          /\ UNCHANGED << task, exc, faults >>
       \/ /\ Fault
          /\ pc' = [pc EXCEPT ![w] = WorkerLoopError]
          /\ EndCycle(w)
          /\ UNCHANGED << task_queue, handed, claim_order >>
    /\ UNCHANGED << jobs, optimizations, now, session_new,
                    session_job, cancel_requested, returned, raised, recovered, completed_by, stranded >>

\* an await inside the try block of process_task raises e: except Exception
Raises(w) ==
    /\ Fault
    /\ \E e \in Errors :
          /\ exc' = [exc EXCEPT ![w] = e]
          /\ raised' = [raised EXCEPT ![task[w]] = e]
    /\ pc' = [pc EXCEPT ![w] = "rollback"]

\* result, metrics = await optimizer.optimize(payload)
Optimize(w) ==
    /\ Resumes(w, "optimize")
    /\ \/ /\ pc' = [pc EXCEPT ![w] = "create_optimization"]
          /\ UNCHANGED << exc, raised, faults >>
       \/ Raises(w)
    /\ UNCHANGED << db_vars, task, attempts_read, session_new, session_job,
                    cancel_requested, handed, claim_order, returned, recovered, completed_by, stranded >>

CreateOptimizationAutocommit(w) ==
    /\ Resumes(w, "create_optimization")
    /\ \/ /\ optimizations' = Append(optimizations,
                 [job_id |-> task_queue[task[w]].job_id, task_id |-> task[w]])
          /\ pc' = [pc EXCEPT ![w] = "update_job_status"]
          /\ UNCHANGED << exc, raised, faults >>
       \/ /\ Raises(w)
          /\ UNCHANGED optimizations
    /\ UNCHANGED << task_queue, jobs, now, task, attempts_read, session_new, session_job,
                    cancel_requested, handed, claim_order, returned, recovered, completed_by, stranded >>

\* await repo.create_optimization(...): session.add(opt); flush()
CreateOptimization(w) ==
    /\ Resumes(w, "create_optimization")
    /\ \/ /\ session_new' = [session_new EXCEPT ![w] = Append(@,
                 [job_id |-> task_queue[task[w]].job_id, task_id |-> task[w]])]
          /\ pc' = [pc EXCEPT ![w] = "update_job_status"]
          /\ UNCHANGED << exc, raised, faults >>
       \/ /\ Raises(w)
          /\ UNCHANGED session_new
    /\ UNCHANGED << db_vars, task, attempts_read, session_job,
                    cancel_requested, handed, claim_order, returned, recovered, completed_by, stranded >>

UpdateJobStatusAutocommit(w) ==
    /\ Resumes(w, "update_job_status")
    /\ \/ /\ jobs' = [jobs EXCEPT ![task_queue[task[w]].job_id].status = "complete"]
          /\ pc' = [pc EXCEPT ![w] = "commit"]
          /\ UNCHANGED << exc, raised, faults >>
       \/ /\ Raises(w)
          /\ UNCHANGED jobs
    /\ UNCHANGED << task_queue, optimizations, now, task, attempts_read, session_new,
                    session_job, cancel_requested, handed, claim_order, returned,
                    recovered, completed_by, stranded >>

\* await repo.update_job_status(job_id, JobStatusEnum.complete)
UpdateJobStatus(w) ==
    /\ Resumes(w, "update_job_status")
    /\ \/ /\ session_job' = [session_job EXCEPT
                               ![w] = @ \cup {task_queue[task[w]].job_id}]
          /\ pc' = [pc EXCEPT ![w] = "commit"]
          /\ UNCHANGED << exc, raised, faults >>
       \/ /\ Raises(w)
          /\ UNCHANGED session_job
    /\ UNCHANGED << db_vars, task, attempts_read, session_new,
                    cancel_requested, handed, claim_order, returned, recovered, completed_by, stranded >>

\* await db_session.commit() of the result; process_task returns; the session
\* is closed and the loop polls again at once
Commit(w) ==
    /\ Resumes(w, "commit")
    /\ \/ /\ optimizations' = optimizations \o session_new[w]
          /\ jobs' = [j \in JobIds |->
                         IF j \in session_job[w]
                         THEN [jobs[j] EXCEPT !.status = "complete"]
                         ELSE jobs[j]]
          /\ completed_by' = IF task_queue[task[w]].job_id \in session_job[w]
                             THEN completed_by \cup {task[w]}
                             ELSE completed_by
          /\ returned' = returned \cup {task[w]}
          /\ CloseSession(w)
          /\ pc' = [pc EXCEPT ![w] = "select"]
          /\ EndCycle(w)
          /\ UNCHANGED << raised, faults >>
       \/ /\ Raises(w)
          /\ UNCHANGED << optimizations, jobs, completed_by, returned,
                          session_new, session_job, task, attempts_read >>
    /\ UNCHANGED << task_queue, now, cancel_requested, handed, claim_order, recovered, stranded >>

\* except Exception: await db_session.rollback(); a raise here leaves
\* process_task and is caught by run_worker
Rollback(w) ==
    /\ Resumes(w, "rollback")
    /\ CloseSession(w)
    /\ \/ /\ pc' = [pc EXCEPT ![w] = "get"]
          /\ UNCHANGED << task, attempts_read, exc, faults >>
       \/ /\ Fault
          /\ pc' = [pc EXCEPT ![w] = WorkerLoopError]
          /\ EndCycle(w)
    /\ UNCHANGED << db_vars, cancel_requested, hist_vars >>

\* task_row = await db_session.get(TaskQueue, task_id); a raise is swallowed
\* by the inner except and process_task returns
GetTaskRow(w) ==
    /\ Resumes(w, "get")
    /\ \/ /\ pc' = [pc EXCEPT ![w] = "fail_commit"]
          /\ UNCHANGED << task, attempts_read, exc, returned, faults >>
       \/ /\ Fault
          /\ pc' = [pc EXCEPT ![w] = "select"]
          /\ returned' = returned \cup {task[w]}
          /\ EndCycle(w)
    /\ UNCHANGED << db_vars, session_new, session_job,
                    cancel_requested, handed, claim_order, raised, recovered, completed_by, stranded >>

FailedRowKeepsStatus(row, e) ==
    [row EXCEPT !.last_error = e]

FailedRowOtherText(row, e) ==
    [row EXCEPT !.status = "failed", !.last_error = "err_a"]

\* task_row.status = TS.failed; task_row.last_error = str(e)
FailedRow(row, e) ==
    [row EXCEPT !.status = "failed", !.last_error = e]

FailCommitFailsJob(w) ==
    /\ Resumes(w, "fail_commit")
    /\ \/ /\ task_queue' = [task_queue EXCEPT ![task[w]] = FailedRow(@, exc[w])]
          /\ jobs' = [jobs EXCEPT ![task_queue[task[w]].job_id].status = "failed"]
          /\ recovered' = recovered \cup {task[w]}
          /\ UNCHANGED faults
       \/ /\ Fault
          /\ UNCHANGED << task_queue, jobs, recovered >>
    /\ returned' = returned \cup {task[w]}
    /\ pc' = [pc EXCEPT ![w] = "select"]
    /\ EndCycle(w)
    /\ UNCHANGED << optimizations, now, session_new,
                    session_job, cancel_requested, handed, claim_order, raised, completed_by, stranded >>

FailCommitStops(w) ==
    /\ Resumes(w, "fail_commit")
    /\ \/ /\ task_queue' = [task_queue EXCEPT ![task[w]] = FailedRow(@, exc[w])]
          /\ recovered' = recovered \cup {task[w]}
          /\ UNCHANGED faults
       \/ /\ Fault
          /\ UNCHANGED << task_queue, recovered >>
    /\ returned' = returned \cup {task[w]}
    /\ pc' = [pc EXCEPT ![w] = "stopped"]
    /\ EndCycle(w)
    /\ UNCHANGED << jobs, optimizations, now, session_new,
                    session_job, cancel_requested, handed, claim_order, raised, completed_by, stranded >>

\* await db_session.commit() of the failure; a raise is swallowed; process_task returns
FailCommit(w) ==
    /\ Resumes(w, "fail_commit")
    /\ \/ /\ task_queue' = [task_queue EXCEPT ![task[w]] = FailedRow(@, exc[w])]
          /\ recovered' = recovered \cup {task[w]}
          /\ UNCHANGED faults
       \/ /\ Fault
          /\ UNCHANGED << task_queue, recovered >>
    /\ returned' = returned \cup {task[w]}
    /\ pc' = [pc EXCEPT ![w] = "select"]
    /\ EndCycle(w)
    /\ UNCHANGED << jobs, optimizations, now, session_new,
                    session_job, cancel_requested, handed, claim_order, raised, completed_by, stranded >>

\* await asyncio.sleep(poll_interval) after an empty poll
IdleSleep(w) ==
    /\ Resumes(w, "idle_sleep")
    /\ pc' = [pc EXCEPT ![w] = "select"]
    /\ UNCHANGED << db_vars, task, attempts_read, exc, session_new, session_job,
                    cancel_requested, faults, hist_vars >>

\* await asyncio.sleep(5) in the handler of a loop error
ErrorSleep(w) ==
    /\ Resumes(w, "error_sleep")
    /\ pc' = [pc EXCEPT ![w] = "select"]
    /\ UNCHANGED << db_vars, task, attempts_read, exc, session_new, session_job,
                    cancel_requested, faults, hist_vars >>

\* ------------------------------------------------------------- lifespan
Executing == { "optimize", "create_optimization", "update_job_status", "commit",
               "rollback", "get", "fail_commit" }

\* shutdown: task.cancel()
Shutdown(w) ==
    /\ pc[w] # "stopped"
    /\ ~cancel_requested[w]
    /\ cancel_requested' = [cancel_requested EXCEPT ![w] = TRUE]
    /\ UNCHANGED << db_vars, pc, task, attempts_read, exc, session_new, session_job,
                    faults, hist_vars >>

\* CancelledError is thrown into the await the worker is suspended on; no
\* except Exception catches it; the session is closed and run_worker ends
Cancelled(w) ==
    /\ pc[w] # "stopped"
    /\ cancel_requested[w]
    /\ cancel_requested' = [cancel_requested EXCEPT ![w] = FALSE]
    /\ stranded' = IF pc[w] \in Executing THEN stranded \cup {task[w]} ELSE stranded
    /\ CloseSession(w)
    /\ pc' = [pc EXCEPT ![w] = "stopped"]
    /\ EndCycle(w)
    /\ UNCHANGED << db_vars, faults,
                    handed, claim_order, returned, raised, recovered, completed_by >>

\* the service is started again: asyncio.create_task(run_worker())
Startup(w) ==
    /\ pc[w] = "stopped"
    /\ pc' = [pc EXCEPT ![w] = "select"]
    /\ UNCHANGED << db_vars, task, attempts_read, exc, session_new, session_job,
                    cancel_requested, faults, hist_vars >>

\* ------------------------------------------------- texts and languages
\* A text is a sequence of characters, each given by its class:
\*   "L" a letter outside the Arabic blocks      (isalpha, no match)
\*   "A" a letter of the Arabic blocks           (isalpha, matches ARABIC_LETTER_RE)
\*   "M" an Arabic mark or digit                 (not isalpha, matches ARABIC_LETTER_RE)
\*   "#" a digit or a punctuation mark           (not isalpha, no match)
\*   " " white space
Rep(c, n) == [ i \in 1..n |-> c ]

RECURSIVE Count(_, _)
Count(text, classes) ==
    IF text = << >> THEN 0
    ELSE (IF Head(text) \in classes THEN 1 ELSE 0) + Count(Tail(text), classes)

RECURSIVE LStrip(_)
LStrip(text) ==
    IF text # << >> /\ Head(text) = " " THEN LStrip(Tail(text)) ELSE text

RECURSIVE RStrip(_)
RStrip(text) ==
    IF text # << >> /\ text[Len(text)] = " "
    THEN RStrip(SubSeq(text, 1, Len(text) - 1))
    ELSE text

\* str.strip()
Strip(text) == RStrip(LStrip(text))

\* needs_translation: the ratio len(arabic_letters) / len(letters) against 0.15,
\* compared exactly as 20 * arabic < 3 * letters; 0.0 when there is no letter
NeedsTranslation(text, target_lang) ==
    LET letters == Count(text, {"L", "A"})
        arabic_letters == Count(text, {"A", "M"})
    IN  IF Strip(text) = << >> THEN FALSE
        ELSE IF target_lang = "ar"
             THEN (IF letters = 0 THEN TRUE ELSE 20 * arabic_letters < 3 * letters)
        ELSE IF target_lang = "en"
             THEN (IF letters = 0 THEN FALSE ELSE 20 * arabic_letters > 3 * letters)
        ELSE FALSE

\* payload["resume_text"] of the request
ResumeText == << "L", "L", "#", " " >>

\* target_lang = desired_output_lang or resume_lang or "en", both validated
\* against ^(en|ar)$ by the request schema
TargetLangs == {"en", "ar"}

EnglishText == Rep("L", 20)
ArabicText == Rep("A", 20)
MixedText == Rep("A", 3) \o Rep("L", 17)
BlankText == << " ", " " >>
\* English words with Arabic-Indic digits or Arabic punctuation among them
MarkedText == Rep("M", 3) \o Rep("L", 17)

\* preview_markdown of the objects the backend returns for the rewrite
RewriteTexts == { EnglishText, ArabicText, MixedText, BlankText, MarkedText }

\* strings the backend returns for the translation
TranslationTexts == { << " ", "A", "A", " " >>, << "L", "L" >> }

\* ----------------------------------------------------- generation backend
\* what the backend raises: pydantic's ValidationError from model_validate_json,
\* ValueError from a provider without a client; both are subclasses of Exception
ExceptionClasses == {"ValidationError", "ValueError"}

\* ExtractedEntities(skills=[], tools=[], education=[], experience=[], contact=None)
EmptyEntities ==
    [ skills |-> << >>, tools |-> << >>, education |-> << >>,
      experience |-> << >>, contact |-> NULL ]

\* the instances of ExtractedEntities the backend may return
EntitiesReturned ==
    { [ skills |-> << "sql" >>, tools |-> << "git" >>, education |-> << "bsc" >>,
        experience |-> << "dev" >>, contact |-> NULL ] }

\* AlignmentInsights(matched=[], missing=[], weak=[], evidence=[])
EmptyAlignment ==
    [ matched |-> << >>, missing |-> << >>, weak |-> << >>, evidence |-> << >> ]

\* the instances of AlignmentInsights the backend may return
AlignmentReturned ==
    { [ matched |-> << "sql" >>, missing |-> << "go" >>, weak |-> << >>,
        evidence |-> << >> ] }

\* the instances of OptimizationResultCore the backend may return
CoreReturned ==
    { [ score |-> 70, missing_keywords |-> << "go" >>, covered_keywords |-> << "sql" >>,
        change_log |-> << "add go", "reorder" >>, preview_markdown |-> text ] :
      text \in RewriteTexts }

CaughtByRetryLoopValidationOnly(e) == e = "ValidationError"

\* except (ValidationError, Exception) of the three retry loops
CaughtByRetryLoop(e) == e = "ValidationError" \/ e \in ExceptionClasses

CaughtByTranslationNever(e) == FALSE

\* except Exception around the call of translate_markdown
CaughtByTranslation(e) == e \in ExceptionClasses

InvalidAttemptUncounted(m) == m

\* self.metrics.invalid_json_attempts += 1
InvalidAttempt(m) == [m EXCEPT !.invalid_json_attempts = @ + 1]

\* the entry of stage_log after one more call of generate_response
Logged(s, has_raised, value) ==
    [stage_log EXCEPT
        ![s].calls = @ + 1,
        ![s].raises = IF has_raised THEN @ + 1 ELSE @,
        ![s].succeeded_at = IF value # None THEN attempt + 1 ELSE @,
        ![s].answer = IF value # None THEN value ELSE @]

\* what a step of optimize() leaves alone in the worker that awaits it
WorkerAwaitsOptimize ==
    UNCHANGED << db_vars, task, attempts_read, session_new, session_job,
                 cancel_requested, handed, claim_order, returned, recovered,
                 completed_by, stranded >>

\* an exception leaves optimize() and reaches the except of process_task
LeavesOptimize(w) ==
    /\ Raises(w)
    /\ UNCHANGED metrics_objects
    /\ stage' = "idle"
    /\ attempt' = 0

\* --------------------------------------------------------------- pipeline
ResetMetricsInPlace(objects) == objects

\* self.metrics = ReliabilityMetrics(): self.metrics is bound to a new object,
\* and to none of the objects that earlier runs returned
ResetMetrics(objects) ==
    [ i \in DOMAIN objects |-> [objects[i] EXCEPT !.bound = FALSE] ]

\* optimize(payload) is called: the metrics are reset and the payload is read;
\* the coroutine runs up to the first call of generate_response
OptimizeBegin(w) ==
    /\ Resumes(w, "optimize")
    /\ stage = "idle"
    /\ metrics' = ReliabilityMetrics
    /\ \E target_lang \in TargetLangs :
          payload' = Some([ resume_text |-> ResumeText, target_lang |-> target_lang ])
    /\ stage' = "extract_entities"
    /\ attempt' = 0
    /\ entities' = None
    /\ alignment' = None
    /\ core_result' = None
    /\ result' = None
    /\ stage_log' = NoCalls
    /\ metrics_objects' = ResetMetrics(metrics_objects)
    /\ UNCHANGED << pc, exc, raised, faults >>
    /\ WorkerAwaitsOptimize

\* one iteration of the loop of extract_entities, and after the last one the
\* all-empty fallback
ExtractEntities(w) ==
    /\ Resumes(w, "optimize")
    /\ stage = "extract_entities"
    /\ \/ \E value \in EntitiesReturned :
             /\ stage_log' = Logged("extract_entities", FALSE, Some(value))
             /\ entities' = Some(value)
             /\ stage' = "analyze_alignment"
             /\ attempt' = 0
             /\ UNCHANGED << metrics, pc, exc, raised, faults, metrics_objects >>
       \/ /\ stage_log' = Logged("extract_entities", FALSE, None)
          /\ IF attempt + 1 < MAX_RETRIES
             THEN attempt' = attempt + 1 /\ UNCHANGED << stage, entities >>
             ELSE attempt' = 0 /\ stage' = "analyze_alignment" /\ entities' = Some(EmptyEntities)
          /\ UNCHANGED << metrics, pc, exc, raised, faults, metrics_objects >>
       \/ \E e \in ExceptionClasses :
             /\ stage_log' = Logged("extract_entities", TRUE, None)
             /\ IF CaughtByRetryLoop(e)
                THEN /\ metrics' = InvalidAttempt(metrics)
                     /\ IF attempt + 1 < MAX_RETRIES
                        THEN attempt' = attempt + 1 /\ UNCHANGED << stage, entities >>
                        ELSE /\ attempt' = 0
                             /\ stage' = "analyze_alignment"
                             /\ entities' = Some(EmptyEntities)
                     /\ UNCHANGED << pc, exc, raised, faults, metrics_objects >>
                ELSE /\ LeavesOptimize(w)
                     /\ UNCHANGED << metrics, entities >>
    /\ UNCHANGED << payload, alignment, core_result, result >>
    /\ WorkerAwaitsOptimize

\* one iteration of the loop of analyze_alignment, and after the last one the
\* all-empty fallback
AnalyzeAlignment(w) ==
    /\ Resumes(w, "optimize")
    /\ stage = "analyze_alignment"
    /\ \/ \E value \in AlignmentReturned :
             /\ stage_log' = Logged("analyze_alignment", FALSE, Some(value))
             /\ alignment' = Some(value)
             /\ stage' = "rewrite"
             /\ attempt' = 0
             /\ UNCHANGED << metrics, pc, exc, raised, faults, metrics_objects >>
       \/ /\ stage_log' = Logged("analyze_alignment", FALSE, None)
          /\ IF attempt + 1 < MAX_RETRIES
             THEN attempt' = attempt + 1 /\ UNCHANGED << stage, alignment >>
             ELSE attempt' = 0 /\ stage' = "rewrite" /\ alignment' = Some(EmptyAlignment)
          /\ UNCHANGED << metrics, pc, exc, raised, faults, metrics_objects >>
       \/ \E e \in ExceptionClasses :
             /\ stage_log' = Logged("analyze_alignment", TRUE, None)
             /\ IF CaughtByRetryLoop(e)
                THEN /\ metrics' = InvalidAttempt(metrics)
                     /\ IF attempt + 1 < MAX_RETRIES
                        THEN attempt' = attempt + 1 /\ UNCHANGED << stage, alignment >>
                        ELSE /\ attempt' = 0
                             /\ stage' = "rewrite"
                             /\ alignment' = Some(EmptyAlignment)
                     /\ UNCHANGED << pc, exc, raised, faults, metrics_objects >>
                ELSE /\ LeavesOptimize(w)
                     /\ UNCHANGED << metrics, alignment >>
    /\ UNCHANGED << payload, entities, core_result, result >>
    /\ WorkerAwaitsOptimize

FallbackResultEmptyPreview(resume_text, ents, align) ==
    [ score |-> 0, missing_keywords |-> << >>, covered_keywords |-> << >>,
      change_log |-> << "Error: Failed to parse LLM response after retries" >>,
      preview_markdown |-> << >>,
      extracted_entities |-> ents, alignment_insights |-> align ]

\* OptimizationResult(score=0, ..., preview_markdown=resume_text, ...)
FallbackResult(resume_text, ents, align) ==
    [ score |-> 0, missing_keywords |-> << >>, covered_keywords |-> << >>,
      change_log |-> << "Error: Failed to parse LLM response after retries" >>,
      preview_markdown |-> resume_text,
      extracted_entities |-> ents, alignment_insights |-> align ]

\* OptimizationResult(score=core_result.score, ..., preview_markdown=preview_markdown, ...)
FullResult(core, preview_markdown, ents, align) ==
    [ score |-> core.score, missing_keywords |-> core.missing_keywords,
      covered_keywords |-> core.covered_keywords, change_log |-> core.change_log,
      preview_markdown |-> preview_markdown,
      extracted_entities |-> ents, alignment_insights |-> align ]

\* return result, self.metrics: the caller is handed the object self.metrics
\* is bound to; process_task goes on to create_optimization
OptimizeReturns(w, res, m) ==
    /\ result' = Some([ result |-> res, metrics |-> m ])
    /\ metrics_objects' = Append(metrics_objects, [ returned |-> m, bound |-> TRUE ])
    /\ stage' = "idle"
    /\ attempt' = 0
    /\ pc' = [pc EXCEPT ![w] = "create_optimization"]
    /\ UNCHANGED << exc, raised, faults >>

\* the rewrite loop has ended without a core result: last_run_valid is false
\* and the fallback result is returned
RewriteExhausted(w, m) ==
    /\ metrics' = [m EXCEPT !.last_run_valid = FALSE]
    /\ OptimizeReturns(w, FallbackResult(Value(payload).resume_text, Value(entities),
                                         Value(alignment)),
                       metrics')
    /\ UNCHANGED core_result

\* one iteration of the rewrite loop of optimize(); after the loop the metrics
\* are set, and the result is returned unless the preview needs translation
Rewrite(w) ==
    /\ Resumes(w, "optimize")
    /\ stage = "rewrite"
    /\ LET counted == [metrics EXCEPT !.total_attempts = @ + 1]
       IN  \/ \E value \in CoreReturned :
                 /\ stage_log' = Logged("rewrite", FALSE, Some(value))
                 /\ core_result' = Some(value)
                 /\ metrics' = [counted EXCEPT !.last_run_valid = TRUE]
                 /\ IF NeedsTranslation(value.preview_markdown, Value(payload).target_lang)
                    THEN /\ stage' = "translate"
                         /\ attempt' = 0
                         /\ UNCHANGED << result, pc, exc, raised, faults,
                                         metrics_objects >>
                    ELSE OptimizeReturns(w,
                            FullResult(value, value.preview_markdown,
                                       Value(entities), Value(alignment)),
                            metrics')
           \/ /\ stage_log' = Logged("rewrite", FALSE, None)
              /\ IF attempt + 1 < MAX_RETRIES
                 THEN /\ attempt' = attempt + 1
                      /\ metrics' = counted
                      /\ UNCHANGED << stage, core_result, result, pc, exc, raised,
                                      faults, metrics_objects >>
                 ELSE RewriteExhausted(w, counted)
           \/ \E e \in ExceptionClasses :
                 /\ stage_log' = Logged("rewrite", TRUE, None)
                 /\ IF CaughtByRetryLoop(e)
                    THEN IF attempt + 1 < MAX_RETRIES
                         THEN /\ attempt' = attempt + 1
                              /\ metrics' = InvalidAttempt(counted)
                              /\ UNCHANGED << stage, core_result, result, pc, exc,
                                              raised, faults, metrics_objects >>
                         ELSE RewriteExhausted(w, InvalidAttempt(counted))
                    ELSE /\ LeavesOptimize(w)
                         /\ metrics' = counted
                         /\ UNCHANGED << core_result, result >>
    /\ UNCHANGED << payload, entities, alignment >>
    /\ WorkerAwaitsOptimize

TranslateMarkdownUnstripped(translated, text) ==
    IF translated # None THEN Value(translated) ELSE text

\* return translated.strip() if isinstance(translated, str) else text
TranslateMarkdown(translated, text) ==
    IF translated # None THEN Strip(Value(translated)) ELSE text

\* the call of generate_response in translate_markdown (None: the backend
\* returned something that is not a str), then the result is built and returned
Translate(w) ==
    /\ Resumes(w, "optimize")
    /\ stage = "translate"
    /\ \/ \E translated \in { Some(text) : text \in TranslationTexts } \cup {None} :
             /\ stage_log' = Logged("translate", FALSE, translated)
             /\ OptimizeReturns(w,
                   FullResult(Value(core_result),
                              TranslateMarkdown(translated,
                                                Value(core_result).preview_markdown),
                              Value(entities), Value(alignment)),
                   metrics)
       \/ \E e \in ExceptionClasses :
             /\ stage_log' = Logged("translate", TRUE, None)
             /\ IF CaughtByTranslation(e)
                THEN OptimizeReturns(w,
                        FullResult(Value(core_result),
                                   Value(core_result).preview_markdown,
                                   Value(entities), Value(alignment)),
                        metrics)
                ELSE LeavesOptimize(w) /\ UNCHANGED result
    /\ UNCHANGED << metrics, payload, entities, alignment, core_result >>
    /\ WorkerAwaitsOptimize

\* ------------------------------------------------------ cosine_similarity
\* the values of the components of a vector
Components == {0, 3, 4}

RECURSIVE Dot(_, _)
Dot(a, b) ==
    IF a = << >> THEN 0 ELSE Head(a) * Head(b) + Dot(Tail(a), Tail(b))

\* np.linalg.norm, for the vectors whose norm is a whole number
Norm(v) == CHOOSE n \in 0..Dot(v, v) : n * n = Dot(v, v)

\* the vectors of at most MaxDim components that have a whole norm
Vectors ==
    { v \in UNION { [1..d -> Components] : d \in 0..MaxDim } :
         \E n \in 0..Dot(v, v) : n * n = Dot(v, v) }

\* the greatest common divisor of a >= 0 and b > 0
RECURSIVE GCD(_, _)
GCD(a, b) == IF b = 0 THEN a ELSE GCD(b, a % b)

\* the float num / den that a call returned, as the fraction in lowest terms
Returns(num, den) ==
    [ raises |-> FALSE, num |-> num \div GCD(num, den), den |-> den \div GCD(num, den) ]

\* np.dot of two arrays of different length: ValueError, shapes not aligned
ShapesNotAligned == [ raises |-> TRUE, num |-> 0, den |-> 1 ]

\* cosine_similarity(vec_a, vec_b): the dot product is taken first, then the
\* norms, then the test for a zero norm
CosineSimilarity(vec_a, vec_b) ==
    IF Len(vec_a) # Len(vec_b) THEN ShapesNotAligned
    ELSE IF Norm(vec_a) = 0 \/ Norm(vec_b) = 0 THEN Returns(0, 1)
    ELSE Returns(Dot(vec_a, vec_b), Norm(vec_a) * Norm(vec_b))

\* a caller is about to call cosine_similarity with two vectors
InitCosine ==
    /\ InitWith({1})
    /\ RankIdle
    /\ \E vec_a \in Vectors, vec_b \in Vectors :
          cosine = Some([ vec_a |-> vec_a, vec_b |-> vec_b, outcome |-> None ])

\* the call of cosine_similarity is made
CallCosineSimilarity ==
    /\ cosine # None
    /\ Value(cosine).outcome = None
    /\ cosine' = Some([ Value(cosine) EXCEPT
                          !.outcome = Some(CosineSimilarity(Value(cosine).vec_a,
                                                            Value(cosine).vec_b)) ])
    /\ UNCHANGED << db_vars, pc, task, attempts_read, exc, session_new, session_job,
                    cancel_requested, faults, hist_vars, optimizer_vars, rank_vars,
                    refining >>

\* ----------------------------------------------------------- ResumeMatcher
WeightsExperienceFirst == [ skills |-> 30, experience |-> 50, education |-> 20 ]

\* ResumeMatcher.WEIGHTS, in hundredths
WEIGHTS == [ skills |-> 50, experience |-> 30, education |-> 20 ]

\* the sections in the order calculate_match_score handles them
Sections == << "skills", "experience", "education" >>

\* ", ".join and " | ".join
Separator ==
    [ skills |-> << ",", " " >>, experience |-> << " ", "|", " " >>,
      education |-> << ",", " " >> ]

RECURSIVE Join(_, _)
Join(strings, separator) ==
    IF strings = << >> THEN << >>
    ELSE IF Len(strings) = 1 THEN Head(strings)
    ELSE Head(strings) \o separator \o Join(Tail(strings), separator)

\* skills_text = ", ".join(resume_skills) if resume_skills else ""
SectionText(strings, section) ==
    IF strings # << >> THEN Join(strings, Separator[section]) ELSE << >>

\* the lists a candidate may carry for a section: none, one blank string, two words
SectionLists == { << >>, << << " " >> >>, << << "x" >>, << "y" >> >> }

\* the job descriptions: blank, and a text
JobDescriptions == { << " " >>, << "j", "d" >> }

\* what self.llm.get_embedding does: it raises, or returns a vector (empty
\* from a provider without embeddings)
BackendAnswers ==
    { [ raises |-> TRUE, embedding |-> << >> ] }
       \cup { [ raises |-> FALSE, embedding |-> v ] :
                 v \in { << >>, << 3, 4 >>, << 5, 12 >> } }

\* ResumeMatcher.get_embedding: [] for a blank text and for a backend that raises
GetEmbedding(text, answer) ==
    IF Strip(text) = << >> THEN << >>
    ELSE IF answer.raises THEN << >>
    ELSE answer.embedding

\* the entry of requested for get_embedding of a section text: the vector
\* it returned
SectionRequest(name, text, answer) ==
    [ text |-> name, embedding |-> GetEmbedding(text, answer) ]

\* the entry of requested for get_embedding(job_description)
Request(name, text, answer) ==
    [ text |-> name, blank |-> Strip(text) = << >>,
      raises |-> Strip(text) # << >> /\ answer.raises,
      empty |-> GetEmbedding(text, answer) = << >>,
      embedding |-> GetEmbedding(text, answer) ]

\* round(x, 1) of the fraction num / den >= 0, in tenths
RoundTenths(num, den) == (20 * num + den) \div (2 * den)

DegradedScoreNoMarker ==
    [ overall_score |-> 0, skills_score |-> 0, experience_score |-> 0,
      education_score |-> 0, error |-> NULL ]

\* the dict returned when job_embedding is empty
DegradedScore ==
    [ overall_score |-> 0, skills_score |-> 0, experience_score |-> 0,
      education_score |-> 0, error |-> "Failed to compute embeddings" ]

\* the dict returned at the end of calculate_match_score, scores in tenths:
\* overall = sum(scores[k] * WEIGHTS[k] * 100), each score round(.., 1)
MatchScore(sc) ==
    [ overall_score |->
         RoundTenths(sc.skills.num * WEIGHTS.skills * sc.experience.den * sc.education.den
                        + sc.experience.num * WEIGHTS.experience * sc.skills.den * sc.education.den
                        + sc.education.num * WEIGHTS.education * sc.skills.den * sc.experience.den,
                     sc.skills.den * sc.experience.den * sc.education.den),
      skills_score |-> RoundTenths(100 * sc.skills.num, sc.skills.den),
      experience_score |-> RoundTenths(100 * sc.experience.num, sc.experience.den),
      education_score |-> RoundTenths(100 * sc.education.num, sc.education.den),
      error |-> NULL ]

RECURSIVE InsertBeforeEqual(_, _)
InsertBeforeEqual(sorted, x) ==
    IF sorted = << >> THEN << x >>
    ELSE IF Head(sorted).overall_score > x.overall_score
         THEN << Head(sorted) >> \o InsertBeforeEqual(Tail(sorted), x)
         ELSE << x >> \o sorted

RECURSIVE SortReversed(_)
SortReversed(seq) ==
    IF seq = << >> THEN << >>
    ELSE InsertBeforeEqual(SortReversed(SubSeq(seq, 1, Len(seq) - 1)), seq[Len(seq)])

RECURSIVE InsertAfterEqual(_, _)
InsertAfterEqual(sorted, x) ==
    IF sorted = << >> THEN << x >>
    ELSE IF Head(sorted).overall_score >= x.overall_score
         THEN << Head(sorted) >> \o InsertAfterEqual(Tail(sorted), x)
         ELSE << x >> \o sorted

\* results.sort(key=lambda x: x["overall_score"], reverse=True): list.sort is
\* stable, and with reverse=True equal keys still keep their order
RECURSIVE SortDescending(_)
SortDescending(seq) ==
    IF seq = << >> THEN << >>
    ELSE InsertAfterEqual(SortDescending(SubSeq(seq, 1, Len(seq) - 1)), seq[Len(seq)])

\* calculate_match_score returns data to rank_candidates, which appends the
\* entry of the candidate and either goes on to the next candidate or sorts
\* the results and returns them
ReturnsScore(data) ==
    /\ score_data' = Some(data)
    /\ results' = Append(results, [ id |-> index ] @@ data)
    /\ job_embedding' = << >>
    /\ scores' = NoScores
    /\ IF index < n_candidates
       THEN /\ index' = index + 1
            /\ rank_pc' = "job_description"
            /\ UNCHANGED ranked
       ELSE /\ ranked' = Some(SortDescending(results'))
            /\ rank_pc' = "returned"
            /\ UNCHANGED index

MatcherOnly ==
    UNCHANGED << db_vars, pc, task, attempts_read, exc, session_new, session_job,
                 cancel_requested, faults, hist_vars, optimizer_vars, cosine,
                 refining >>

\* rank_candidates(candidates, job_description) is called; with no candidate
\* it sorts the empty list and returns
RankCandidates ==
    /\ rank_pc = "idle"
    /\ \E n \in 0..MaxCandidates, text \in JobDescriptions :
          /\ n_candidates' = n
          /\ job_description' = text
          /\ IF n = 0
             THEN /\ ranked' = Some(SortDescending(<< >>))
                  /\ rank_pc' = "returned"
                  /\ UNCHANGED index
             ELSE /\ index' = 1
                  /\ rank_pc' = "job_description"
                  /\ UNCHANGED ranked
    /\ UNCHANGED << job_embedding, scores, score_data, results, requested >>
    /\ MatcherOnly

\* calculate_match_score is called for the candidate at the position of the
\* loop and awaits get_embedding(job_description); an empty embedding returns
\* the degraded dict
JobEmbedding ==
    /\ rank_pc = "job_description"
    /\ \E answer \in BackendAnswers :
          LET embedding == GetEmbedding(job_description, answer)
          IN  /\ requested' = << Request("job_description", job_description, answer) >>
              /\ IF embedding = << >>
                 THEN ReturnsScore(DegradedScore)
                 ELSE /\ job_embedding' = embedding
                      /\ scores' = NoScores
                      /\ score_data' = None
                      /\ rank_pc' = "skills"
                      /\ UNCHANGED << index, results, ranked >>
    /\ UNCHANGED << job_description, n_candidates >>
    /\ MatcherOnly

\* the score of one section of the candidate (strings: the list the candidate
\* carries for it): 0 for an empty text, else get_embedding of the text and,
\* unless the embedding is empty, the cosine similarity with the job
\* embedding; after the last section the dict of the scores is returned
ScoreSection ==
    /\ \E k \in DOMAIN Sections :
          /\ rank_pc = Sections[k]
          /\ \E strings \in SectionLists, answer \in BackendAnswers :
                    LET section == Sections[k]
                        text == SectionText(strings, section)
                        embedding == GetEmbedding(text, answer)
                        similarity == IF text # << >> /\ embedding # << >>
                                      THEN CosineSimilarity(job_embedding, embedding)
                                      ELSE Returns(0, 1)
                    IN  /\ requested' = IF text # << >>
                                        THEN Append(requested,
                                                    SectionRequest(section, text, answer))
                                        ELSE requested
                        /\ IF similarity.raises
                           THEN /\ rank_pc' = "raised"
                                /\ UNCHANGED << index, job_embedding, scores, score_data,
                                                results, ranked >>
                           ELSE LET sc == [scores EXCEPT
                                              ![section] = [ num |-> similarity.num,
                                                             den |-> similarity.den ]]
                                IN  IF k < Len(Sections)
                                    THEN /\ scores' = sc
                                         /\ rank_pc' = Sections[k + 1]
                                         /\ UNCHANGED << index, job_embedding, score_data,
                                                         results, ranked >>
                                    ELSE ReturnsScore(MatchScore(sc))
    /\ UNCHANGED << job_description, n_candidates >>
    /\ MatcherOnly

\* ------------------------------------------------------- specifications
\* one resumption of the coroutine run_worker
WorkerStep(w) ==
    \/ Select(w)
    \/ ClaimCommit(w)
    \/ Optimize(w)
    \/ CreateOptimization(w)
    \/ UpdateJobStatus(w)
    \/ Commit(w)
    \/ Rollback(w)
    \/ GetTaskRow(w)
    \/ FailCommit(w)
    \/ IdleSleep(w)
    \/ ErrorSleep(w)

Requests ==
    \/ CreateJob
    \/ \E job_id \in JobIds : RefineJob(job_id)

\* the queue and the worker, with the pipeline abstracted to Optimize(w)
Next ==
    \/ Requests /\ UNCHANGED << optimizer_vars, matcher_vars, refining >>
    \/ \E w \in Workers : WorkerStep(w) /\ UNCHANGED << optimizer_vars, matcher_vars, refining >>
    \/ \E w \in Workers : Shutdown(w) /\ UNCHANGED << optimizer_vars, matcher_vars, refining >>
    \/ \E w \in Workers : Cancelled(w) /\ UNCHANGED << optimizer_vars, matcher_vars, refining >>
    \/ \E w \in Workers : Startup(w) /\ UNCHANGED << optimizer_vars, matcher_vars, refining >>

\* one worker, as the service is deployed
Spec == Init /\ [][Next]_vars

\* the load the pair of instances is explored under: one row and one raising
\* call fewer than the single worker
TwoWorkersLoad == Len(task_queue') < MaxTasks /\ faults' < MaxFaults

NextTwoWorkers ==
    \/ Requests /\ TwoWorkersLoad /\ UNCHANGED << optimizer_vars, matcher_vars, refining >>
    \/ \E w \in Workers : WorkerStep(w) /\ TwoWorkersLoad
                            /\ UNCHANGED << optimizer_vars, matcher_vars, refining >>

\* two instances of the service polling one database, neither shut down
SpecTwoWorkers == InitTwoWorkers /\ [][NextTwoWorkers]_vars

\* one worker whose coroutine is always resumed by the event loop, and a
\* service that is started again after a shutdown
SpecFair ==
    /\ Init
    /\ [][Next]_vars
    /\ WF_vars(\E w \in Workers : (WorkerStep(w) \/ Cancelled(w))
                                    /\ UNCHANGED << optimizer_vars, matcher_vars, refining >>)
    /\ WF_vars(\E w \in Workers : Startup(w) /\ UNCHANGED << optimizer_vars, matcher_vars, refining >>)

NextNoCancel ==
    \/ Requests /\ UNCHANGED << optimizer_vars, matcher_vars, refining >>
    \/ \E w \in Workers : WorkerStep(w) /\ UNCHANGED << optimizer_vars, matcher_vars, refining >>

\* one worker that is never cancelled and whose coroutine is always resumed
\* by the event loop: every call it awaits returns or raises
SpecNoCancel ==
    /\ Init
    /\ [][NextNoCancel]_vars
    /\ WF_vars(\E w \in Workers : WorkerStep(w)
                                    /\ UNCHANGED << optimizer_vars, matcher_vars, refining >>)

\* one resumption of run_worker, with optimize() executed call by call
PipelineWorkerStep(w) ==
    \/ Select(w) /\ UNCHANGED optimizer_vars
    \/ ClaimCommit(w) /\ UNCHANGED optimizer_vars
    \/ OptimizeBegin(w)
    \/ ExtractEntities(w)
    \/ AnalyzeAlignment(w)
    \/ Rewrite(w)
    \/ Translate(w)
    \/ CreateOptimization(w) /\ UNCHANGED optimizer_vars
    \/ UpdateJobStatus(w) /\ UNCHANGED optimizer_vars
    \/ Commit(w) /\ UNCHANGED optimizer_vars
    \/ Rollback(w) /\ UNCHANGED optimizer_vars
    \/ GetTaskRow(w) /\ UNCHANGED optimizer_vars
    \/ FailCommit(w) /\ UNCHANGED optimizer_vars
    \/ IdleSleep(w) /\ UNCHANGED optimizer_vars
    \/ ErrorSleep(w) /\ UNCHANGED optimizer_vars

\* the first job of the service is submitted
FirstJob == CreateJob /\ Len(jobs) = 0

\* the storage is explored with one raising call fewer than in Spec
PipelineLoad == faults' < MaxFaults

NextOptimizer ==
    \/ FirstJob /\ UNCHANGED << optimizer_vars, matcher_vars, refining >>
    \/ \E w \in Workers : PipelineWorkerStep(w) /\ PipelineLoad /\ UNCHANGED << matcher_vars, refining >>

\* the worker executing the task of one job, the generation backend answering
\* every call in every way it can
SpecOptimizer == Init /\ [][NextOptimizer]_vars

\* one resumption of run_worker when every storage call returns
RunsWorkerStep(w) ==
    \/ Select(w) /\ UNCHANGED optimizer_vars
    \/ ClaimCommit(w) /\ UNCHANGED optimizer_vars
    \/ OptimizeBegin(w)
    \/ ExtractEntities(w)
    \/ AnalyzeAlignment(w)
    \/ Rewrite(w)
    \/ Translate(w)
    \/ CreateOptimization(w) /\ UNCHANGED optimizer_vars
    \/ UpdateJobStatus(w) /\ UNCHANGED optimizer_vars
    \/ Commit(w) /\ UNCHANGED optimizer_vars
    \/ IdleSleep(w) /\ UNCHANGED optimizer_vars

\* the runs are explored with one row fewer than in Spec, storage calls that
\* return and a backend that fails at most one attempt of a stage
RunsLoad ==
    /\ Len(task_queue') < MaxTasks
    /\ faults' = faults
    /\ \A s \in Stages : stage_log'[s].calls <= 2

NextRuns ==
    \/ FirstJob /\ UNCHANGED << optimizer_vars, matcher_vars, refining >>
    \/ \E job_id \in JobIds :
          RefineJob(job_id) /\ UNCHANGED << optimizer_vars, matcher_vars, refining >> /\ RunsLoad
    \/ \E w \in Workers : RunsWorkerStep(w) /\ RunsLoad /\ UNCHANGED << matcher_vars, refining >>

\* the ResumeOptimizer of one run_worker executing the task of a job and then
\* the tasks of its refinements
SpecRuns == Init /\ [][NextRuns]_vars

NextRequests ==
    \/ CreateJob /\ UNCHANGED << optimizer_vars, matcher_vars, refining >>
    \/ \E job_id \in JobIds :
          RefineJobRead(job_id) /\ UNCHANGED << optimizer_vars, matcher_vars >>
    \/ \E job_id \in JobIds :
          RefineJobCommit(job_id) /\ UNCHANGED << optimizer_vars, matcher_vars >>
    \/ \E w \in Workers : WorkerStep(w) /\ UNCHANGED << optimizer_vars, matcher_vars, refining >>

\* the worker and request handlers whose awaits interleave: refine_job
\* checks the status in one step and commits in a later one
SpecRequests == Init /\ [][NextRequests]_vars

\* one call of cosine_similarity, for every pair of vectors
SpecCosine == InitCosine /\ [][CallCosineSimilarity]_vars

NextMatcher ==
    \/ RankCandidates
    \/ JobEmbedding
    \/ ScoreSection

\* one call of rank_candidates, the embedding backend answering every call in
\* every way it can
SpecMatcher == Init /\ [][NextMatcher]_vars

TypeOK ==
    /\ \A t \in TaskIds :
          /\ task_queue[t].status \in TaskStatusEnum
          /\ task_queue[t].task_type \in TaskTypeEnum
          /\ task_queue[t].last_error \in Errors \cup {NULL}
          /\ task_queue[t].job_id \in JobIds
    /\ \A j \in JobIds : jobs[j].status \in JobStatusEnum
    /\ Len(handed) = Len(task_queue)
    /\ Len(raised) = Len(task_queue)
    /\ faults \in 0..MaxFaults


\* ------------------------------------------------------------ properties
Terminal == {"complete", "failed"}

OptimizationsOf(t) == { i \in DOMAIN optimizations : optimizations[i].task_id = t }

\* C1: whenever the worker commits the claim of a row, the row becomes
\* 'processing' with attempts one higher than before, and no row is ever handed
\* to process_task twice.
ClaimSemantics ==
    /\ [][\A t \in TaskIds :
             handed'[t] # handed[t] =>
                /\ task_queue'[t].status = "processing"
                /\ task_queue'[t].attempts = task_queue[t].attempts + 1]_vars
    /\ [](\A t \in TaskIds : handed[t] <= 1)

\* a row was claimed once and a later poll of the worker found nothing to claim
ClaimSemanticsWitness ==
    /\ pc[1] = "idle_sleep"
    /\ \E t \in TaskIds :
          /\ handed[t] = 1
          /\ task_queue[t].status = "processing"
          /\ task_queue[t].attempts = 1

ClaimedTaskEndsTerminal ==
    \A t \in returned : task_queue[t].status \in Terminal

\* C4: in every step a row's status stays or moves queued -> processing ->
\* {complete, failed}; rows are never removed or given to another job, and a
\* refinement adds a new queued row instead of changing an existing one.
StatusMonotone ==
    [][/\ Len(task_queue') >= Len(task_queue)
       /\ \A t \in TaskIds :
             /\ task_queue'[t].job_id = task_queue[t].job_id
             /\ \/ task_queue'[t].status = task_queue[t].status
                \/ task_queue[t].status = "queued" /\ task_queue'[t].status = "processing"
                \/ task_queue[t].status = "processing" /\ task_queue'[t].status \in Terminal
       /\ \A j \in JobIds :
             (jobs[j].status = "complete" /\ jobs'[j].status = "queued") =>
                /\ Len(task_queue') = Len(task_queue) + 1
                /\ task_queue'[Len(task_queue')].job_id = j
                /\ task_queue'[Len(task_queue')].status = "queued"]_vars

\* a job was refined: it has an executed row and a second row, which failed
StatusMonotoneWitness ==
    \E t, u \in TaskIds :
       /\ t < u
       /\ task_queue[t].job_id = task_queue[u].job_id
       /\ task_queue[t].status = "processing"
       /\ task_queue[u].status = "failed"

\* C5: with a single worker at most one row is 'processing'.
AtMostOneProcessing ==
    Cardinality({ t \in TaskIds : task_queue[t].status = "processing" }) <= 1

\* C6: in every committed state, a cycle has set its job to 'complete' if and
\* only if exactly one optimization record of that cycle is present, and no
\* other cycle has a record.
ResultAndJobStatusTogether ==
    \A t \in TaskIds :
       /\ t \in completed_by <=> OptimizationsOf(t) # {}
       /\ Cardinality(OptimizationsOf(t)) <= 1
       /\ \A i \in OptimizationsOf(t) : optimizations[i].job_id = task_queue[t].job_id

\* one cycle committed its result and its job is complete; another cycle
\* raised after work had been flushed and left no record
ResultAndJobStatusTogetherWitness ==
    \E t, u \in TaskIds :
       /\ t \in completed_by
       /\ jobs[task_queue[t].job_id].status = "complete"
       /\ u \in returned
       /\ raised[u] # NULL
       /\ OptimizationsOf(u) = {}

LoopEndsOnlyOnCancel ==
    [][\A w \in Workers :
          /\ (pc[w] # "stopped" /\ pc'[w] = "stopped") => cancel_requested[w]
          /\ (pc[w] \in {"idle_sleep", "error_sleep"} /\ pc'[w] # pc[w])
                => (pc'[w] = "select" \/ cancel_requested[w])]_vars

\* the worker is asleep after a loop error that followed a failed task
LoopEndsOnlyOnCancelWitness ==
    /\ pc[1] = "error_sleep"
    /\ \E t \in returned : raised[t] # NULL

\* C9: a row that was being executed when the worker was cancelled does not
\* stay 'processing' forever.
ShutdownDoesNotStrand ==
    \A t \in 1..MaxTasks :
       (t \in stranded) ~> (t \in TaskIds /\ task_queue[t].status \in Terminal)

\* C10: with two workers on one task store no row is handed to process_task
\* twice and attempts counts the claims.
AtomicClaim ==
    \A t \in TaskIds :
       /\ handed[t] <= 1
       /\ task_queue[t].attempts = handed[t]

\* C11: a step of the worker changes the status of a job only by setting the
\* job of its own row to 'complete' in the commit of a successful cycle; the
\* step that marks a row 'failed' changes no job and no optimization, and no
\* job is ever 'processing'.
WorkerWritesOnlyComplete ==
    /\ [][\A j \in JobIds :
             (pc' # pc /\ jobs'[j].status # jobs[j].status) =>
                /\ jobs'[j].status = "complete"
                /\ \E t \in completed_by' \ completed_by : task_queue[t].job_id = j]_vars
    /\ [][\A t \in TaskIds :
             (task_queue[t].status # "failed" /\ task_queue'[t].status = "failed") =>
                /\ jobs' = jobs
                /\ optimizations' = optimizations
                /\ \A u \in TaskIds \ {t} : task_queue'[u] = task_queue[u]]_vars
    /\ [](\A j \in JobIds : jobs[j].status # "processing")

\* one cycle failed and its job is still 'queued'; another cycle set its job
\* to 'complete'
WorkerWritesOnlyCompleteWitness ==
    \E t \in recovered, u \in completed_by :
       /\ task_queue[t].status = "failed"
       /\ jobs[task_queue[t].job_id].status = "queued"
       /\ jobs[task_queue[u].job_id].status = "complete"

\* ------------------------------------------------- pipeline properties
\* the value optimize() returned in its current or last run, and the metrics
\* returned with it
Returned == Value(result).result
ReturnedMetrics == Value(result).metrics

\* C12: whatever the backend does in a call (raise, return something else,
\* return a valid object), optimize() returns a result and never raises: an
\* error of the cycle can only come after the return; and a cycle in which
\* nothing else raised, also one whose rewrite failed on all attempts, has
\* stored its result and set its job to 'complete'.
ForwardProgress ==
    \A t \in TaskIds :
       /\ raised[t] # NULL => result # None
       /\ (t \in returned /\ raised[t] = NULL) =>
             /\ result # None
             /\ t \in completed_by
             /\ OptimizationsOf(t) # {}
             /\ jobs[task_queue[t].job_id].status = "complete"

\* all three rewrite attempts failed, two by a raise and one by a value of the
\* wrong type, after stage 1 had failed too; the job is complete
ForwardProgressWitness ==
    /\ result # None
    /\ stage_log["rewrite"].calls = 3
    /\ stage_log["rewrite"].raises = 2
    /\ stage_log["rewrite"].answer = None
    /\ stage_log["extract_entities"].raises = 3
    /\ \E t \in completed_by : jobs[task_queue[t].job_id].status = "complete"

\* C13: when stage 1 (or stage 2) is over and every call of it raised, it made
\* exactly 3 calls, added exactly 3 to invalid_json_attempts and produced the
\* all-empty structure; when a call returned a valid object on attempt k, it
\* made exactly k calls and produced that object.
BoundedRetryEmptyFallback ==
    /\ \A s \in {"extract_entities", "analyze_alignment"} :
          LET produced == IF s = "extract_entities" THEN entities ELSE alignment
              empty == IF s = "extract_entities" THEN EmptyEntities ELSE EmptyAlignment
              log == stage_log[s]
          IN  produced # None =>
                 /\ (log.answer = None /\ log.raises = log.calls) =>
                       /\ log.calls = 3
                       /\ produced = Some(empty)
                 /\ log.answer # None =>
                       /\ log.calls = log.succeeded_at
                       /\ log.succeeded_at <= 3
                       /\ produced = log.answer
    /\ (stage = "analyze_alignment" /\ stage_log["analyze_alignment"].calls = 0) =>
          metrics.invalid_json_attempts = stage_log["extract_entities"].raises
    /\ (stage = "rewrite" /\ stage_log["rewrite"].calls = 0) =>
          metrics.invalid_json_attempts =
             stage_log["extract_entities"].raises + stage_log["analyze_alignment"].raises

\* stage 1 raised three times and fell back to the empty structure, stage 2
\* succeeded on its second attempt
BoundedRetryEmptyFallbackWitness ==
    /\ stage = "rewrite"
    /\ stage_log["extract_entities"].raises = 3
    /\ entities = Some(EmptyEntities)
    /\ stage_log["analyze_alignment"].succeeded_at = 2
    /\ stage_log["analyze_alignment"].calls = 2
    /\ metrics.invalid_json_attempts = 4

\* C14: last_run_valid of the returned metrics is true exactly when a rewrite
\* attempt returned a valid core result; when none did, 3 attempts were made
\* and the result has score 0, empty keyword lists, a change log of one entry
\* and the resume text of the payload as its preview.
RewriteExhaustion ==
    result # None =>
       /\ ReturnedMetrics.last_run_valid = (stage_log["rewrite"].answer # None)
       /\ stage_log["rewrite"].answer = None =>
             /\ stage_log["rewrite"].calls = 3
             /\ Returned.score = 0
             /\ Returned.missing_keywords = << >>
             /\ Returned.covered_keywords = << >>
             /\ Len(Returned.change_log) = 1
             /\ Returned.preview_markdown = Value(payload).resume_text
             /\ ~ReturnedMetrics.last_run_valid

\* the rewrite failed three times without a raise and the fallback was returned
RewriteExhaustionWitness ==
    /\ result # None
    /\ stage_log["rewrite"].calls = 3
    /\ stage_log["rewrite"].raises = 0
    /\ stage_log["rewrite"].answer = None
    /\ Returned.preview_markdown = ResumeText
    /\ ~ReturnedMetrics.last_run_valid

\* C15: when optimize() has returned, total_attempts is the number of calls
\* made with a schema in stages 1, 2 and 3, and invalid_json_attempts does not
\* exceed it.
AttemptAccounting ==
    result # None =>
       /\ ReturnedMetrics.total_attempts =
             stage_log["extract_entities"].calls + stage_log["analyze_alignment"].calls
                + stage_log["rewrite"].calls
       /\ ReturnedMetrics.invalid_json_attempts <= ReturnedMetrics.total_attempts

\* a text written wholly in the language that is not lang
WhollyOtherLanguage(text, lang) ==
    \/ lang = "ar" /\ Count(text, {"L"}) > 0 /\ Count(text, {"A", "M"}) = 0
    \/ lang = "en" /\ Count(text, {"A"}) > 0 /\ Count(text, {"L"}) = 0

TranslationFailureSwallowed ==
    stage_log["translate"].raises > 0 =>
       /\ stage_log["translate"].calls = 1
       /\ result # None
       /\ LET core == Value(stage_log["rewrite"].answer)
          IN  /\ Returned.score = core.score
              /\ Returned.missing_keywords = core.missing_keywords
              /\ Returned.covered_keywords = core.covered_keywords
              /\ Returned.change_log = core.change_log
              /\ Returned.preview_markdown = core.preview_markdown
       /\ ReturnedMetrics.last_run_valid
       /\ \A t \in returned :
             raised[t] = NULL =>
                /\ t \in completed_by
                /\ jobs[task_queue[t].job_id].status = "complete"

\* the translation of an Arabic preview for an English target raised and the
\* cycle committed its result
TranslationFailureSwallowedWitness ==
    /\ stage_log["translate"].raises = 1
    /\ Returned.preview_markdown = ArabicText
    /\ \E t \in completed_by : OptimizationsOf(t) # {}

\* C22: after a successful rewrite the translation call is issued if and only
\* if the target is Arabic and the ratio of Arabic-script letters to all
\* alphabetic characters of the preview is below 0.15, or the target is not
\* Arabic and that ratio is above 0.15 (stated for the previews that have an
\* alphabetic character); it is never issued when the rewrite was exhausted.
TranslationTrigger ==
    result # None =>
       IF stage_log["rewrite"].answer = None
       THEN stage_log["translate"].calls = 0
       ELSE LET text == Value(stage_log["rewrite"].answer).preview_markdown
                letters == Count(text, {"L", "A"})
                arabic_letters == Count(text, {"A"})
            IN  letters > 0 =>
                   (stage_log["translate"].calls > 0 <=>
                       IF Value(payload).target_lang = "ar"
                       THEN 20 * arabic_letters < 3 * letters
                       ELSE 20 * arabic_letters > 3 * letters)

\* the attempts of a stage that did not yield an instance of its schema
FailedAttempts(s) ==
    stage_log[s].calls - (IF stage_log[s].answer # None THEN 1 ELSE 0)

\* C23: every failed attempt of stages 1-3, raised or returned as something
\* that is not an instance of the schema, adds one to invalid_json_attempts: a
\* stage without a valid object made 3 attempts, and at the end of the run
\* invalid_json_attempts is the number of attempts that yielded no valid object.
InvalidCountsEveryFailedAttempt ==
    result # None =>
       /\ \A s \in {"extract_entities", "analyze_alignment", "rewrite"} :
             stage_log[s].answer = None => stage_log[s].calls = MAX_RETRIES
       /\ ReturnedMetrics.invalid_json_attempts =
             FailedAttempts("extract_entities") + FailedAttempts("analyze_alignment")
                + FailedAttempts("rewrite")

\* the generation calls one execution of optimize() has issued
GenerationCalls ==
    stage_log["extract_entities"].calls + stage_log["analyze_alignment"].calls
       + stage_log["rewrite"].calls + stage_log["translate"].calls

\* C24: one execution of optimize() issues between 1 and 4 generation calls
\* in total, for every pattern of successes and failures of the backend.
GenerationCallsOneToFour ==
    result # None => GenerationCalls \in 1..4

\* C24, amended: one execution of optimize() issues between 3 and 10
\* generation calls: 1 to 3 for each of extraction, alignment and rewrite (one
\* per attempt) and at most one translation, which follows a rewrite that
\* returned a valid object.
GenerationCallsThreeToTen ==
    result # None =>
       /\ \A s \in {"extract_entities", "analyze_alignment", "rewrite"} :
             stage_log[s].calls \in 1..3
       /\ stage_log["translate"].calls \in 0..1
       /\ stage_log["translate"].calls = 1 => stage_log["rewrite"].answer # None
       /\ GenerationCalls \in 3..10

\* every call of stages 1 and 2 failed, the rewrite returned a valid object
\* on its third attempt and its preview was sent to translation: 10 calls
GenerationCallsThreeToTenWitness ==
    /\ result # None
    /\ stage_log["extract_entities"].answer = None
    /\ stage_log["analyze_alignment"].answer = None
    /\ stage_log["rewrite"].succeeded_at = 3
    /\ GenerationCalls = 10

\* the metrics a new ResumeOptimizer returns for the calls of stage_log
FreshMetrics ==
    [ invalid_json_attempts |->
         stage_log["extract_entities"].raises + stage_log["analyze_alignment"].raises
            + stage_log["rewrite"].raises,
      total_attempts |-> stage_log["rewrite"].calls,
      last_run_valid |-> stage_log["rewrite"].answer # None ]

\* C25: the metrics a run of optimize() returns count the attempts of that run
\* only, as a new ResumeOptimizer would for the same calls, whatever runs came
\* before on the same ResumeOptimizer; and the metrics object an earlier run
\* returned keeps the values it was returned with.
MetricsDoNotLeak ==
    /\ result # None => ReturnedMetrics = FreshMetrics
    /\ \A i \in DOMAIN metrics_objects :
          metrics_objects[i].bound => metrics = metrics_objects[i].returned

\* a second run on the same ResumeOptimizer is under way after a first run
\* that returned 2 invalid attempts
MetricsDoNotLeakWitness ==
    /\ Len(metrics_objects) = 1
    /\ metrics_objects[1].returned.invalid_json_attempts = 2
    /\ stage = "rewrite"
    /\ metrics.invalid_json_attempts = 0

\* ---------------------------------------------- queue and job properties
\* C26: a task row has a last_error only if its status is 'failed'; a row
\* that was claimed and a row whose cycle committed its result have none.
LastErrorOnlyWhenFailed ==
    \A t \in TaskIds :
       /\ task_queue[t].last_error # NULL => task_queue[t].status = "failed"
       /\ (handed[t] > 0 /\ task_queue[t].status = "processing") =>
             task_queue[t].last_error = NULL
       /\ t \in completed_by => task_queue[t].last_error = NULL

\* one row failed with its error recorded, another was claimed and its cycle
\* committed the result
LastErrorOnlyWhenFailedWitness ==
    \E t, u \in TaskIds :
       /\ task_queue[t].status = "failed"
       /\ task_queue[t].last_error # NULL
       /\ u \in completed_by
       /\ task_queue[u].last_error = NULL

\* C27: a row is added for an existing job, or a job leaves 'complete', only
\* by a refine request for a job that is 'complete': in that one step the job
\* becomes 'queued' and exactly one new 'queued' optimize row of that job is
\* appended, every other job and every existing row unchanged; a refine
\* request for a job that is not complete changes nothing.
RefineOnlyWhenComplete ==
    [][(/\ Len(jobs') = Len(jobs)
        /\ \/ Len(task_queue') # Len(task_queue)
           \/ \E j \in JobIds : jobs[j].status = "complete" /\ jobs'[j].status # "complete")
          => \E j \in JobIds :
                /\ jobs[j].status = "complete"
                /\ jobs' = [jobs EXCEPT ![j].status = "queued"]
                /\ Len(task_queue') = Len(task_queue) + 1
                /\ SubSeq(task_queue', 1, Len(task_queue)) = task_queue
                /\ LET row == task_queue'[Len(task_queue')]
                   IN  /\ row.status = "queued"
                       /\ row.task_type = "optimize"
                       /\ row.job_id = j
                       /\ row.attempts = 0
                       /\ row.last_error = NULL
                /\ optimizations' = optimizations]_vars

\* a job whose first task was completed has been refined: it is 'queued'
\* again with a second row, queued, after the first
RefineOnlyWhenCompleteWitness ==
    \E j \in JobIds, t, u \in TaskIds :
       /\ t < u
       /\ task_queue[t].job_id = j
       /\ task_queue[u].job_id = j
       /\ t \in completed_by
       /\ task_queue[u].status = "queued"
       /\ jobs[j].status = "queued"

\* C28: a job whose status is 'complete' has at least one persisted
\* optimization record, and get_job returns a result for every job it reports
\* as complete.
CompleteJobHasResult ==
    \A j \in JobIds :
       GetJob(j).status = "complete" =>
          /\ \E i \in DOMAIN optimizations : optimizations[i].job_id = j
          /\ GetJob(j).result # None
          /\ Value(GetJob(j).result).job_id = j

\* a refined job is complete again, and get_job returns the record of the
\* task of the refinement
CompleteJobHasResultWitness ==
    \E j \in JobIds, t, u \in TaskIds :
       /\ t < u
       /\ OptimizationsOf(t) # {}
       /\ GetJob(j).status = "complete"
       /\ GetJob(j).result = Some([ job_id |-> j, task_id |-> u ])

\* the rows of a job that wait for the worker
QueuedRowsOf(j) ==
    { t \in TaskIds : /\ task_queue[t].job_id = j
                      /\ task_queue[t].task_type = "optimize"
                      /\ task_queue[t].status = "queued" }

\* C29: under any interleaving of create_job and refine_job requests with the
\* worker, a job never has more than one optimize row in status 'queued', and
\* while it has one its status is 'queued'.
OneQueuedRowPerJob ==
    \A j \in JobIds :
       /\ Cardinality(QueuedRowsOf(j)) <= 1
       /\ QueuedRowsOf(j) # {} => jobs[j].status = "queued"

\* C30: with one worker that is not cancelled and calls that all return or
\* raise, every optimize row that is enqueued is eventually claimed, whatever
\* the outcome of the rows ahead of it.
NoStarvation ==
    \A t \in 1..MaxTasks :
       (t \in TaskIds /\ task_queue[t].task_type = "optimize")
          ~> (t \in TaskIds /\ handed[t] > 0)

\* a row was claimed after the row ahead of it had failed
NoStarvationWitness ==
    \E t, u \in TaskIds :
       /\ t < u
       /\ task_queue[t].status = "failed"
       /\ handed[u] > 0

\* -------------------------------------------------- matcher properties
\* C18: whenever one of the two vectors is empty or has norm zero, whatever
\* the other vector and its length, cosine_similarity returns 0.0 and does not
\* raise.
CosineZeroForEmptyOrZeroNorm ==
    (cosine # None /\ Value(cosine).outcome # None) =>
       LET vec_a == Value(cosine).vec_a
           vec_b == Value(cosine).vec_b
           outcome == Value(Value(cosine).outcome)
       IN  (vec_a = << >> \/ vec_b = << >> \/ Dot(vec_a, vec_a) = 0 \/ Dot(vec_b, vec_b) = 0)
              => (~outcome.raises /\ outcome.num = 0)

\* C19: the list rank_candidates returns has exactly one entry for each
\* candidate, the entry built for it, in descending order of overall_score,
\* and entries of equal overall_score in the order of the input.
RankDescendingStable ==
    ranked # None =>
       LET r == Value(ranked)
       IN  /\ Len(r) = n_candidates
           /\ \A c \in 1..n_candidates :
                 Cardinality({ i \in DOMAIN r : r[i].id = c }) = 1
           /\ \A i \in DOMAIN r : r[i] = results[r[i].id]
           /\ \A i, j \in DOMAIN r :
                 i < j =>
                    /\ r[i].overall_score >= r[j].overall_score
                    /\ r[i].overall_score = r[j].overall_score => r[i].id < r[j].id

\* two candidates with the same overall score above 0 were returned in the
\* order they were given
RankDescendingStableWitness ==
    /\ ranked # None
    /\ Len(Value(ranked)) = 2
    /\ Value(ranked)[1].overall_score = Value(ranked)[2].overall_score
    /\ Value(ranked)[1].overall_score > 0
    /\ Value(ranked)[1].id = 1

\* C20: when get_embedding of the job description gives no vector, because
\* the text is blank, the backend raised or the backend returned an empty
\* vector, calculate_match_score has returned the four scores 0 with an error
\* marker, has not raised and has requested no other embedding.
ScorerDegradation ==
    (requested # << >>
       /\ (requested[1].blank \/ requested[1].raises \/ requested[1].empty)) =>
       /\ requested[1].text = "job_description"
       /\ Len(requested) = 1
       /\ rank_pc # "raised"
       /\ score_data # None
       /\ Value(score_data).overall_score = 0
       /\ Value(score_data).skills_score = 0
       /\ Value(score_data).experience_score = 0
       /\ Value(score_data).education_score = 0
       /\ Value(score_data).error # NULL

\* the backend raised for the job description of the second candidate, after
\* the first candidate had been scored
ScorerDegradationWitness ==
    /\ Len(results) = 2
    /\ results[1].error = NULL
    /\ results[1].overall_score > 0
    /\ requested = << [ text |-> "job_description", blank |-> FALSE,
                        raises |-> TRUE, empty |-> TRUE, embedding |-> << >> ] >>
    /\ results[2].error # NULL

\* the cosine similarity of a section to the job description as a fraction,
\* from the vectors the backend returned in the call: 0 for a section that was
\* not embedded or whose embedding is empty
SectionSimilarity(section) ==
    LET calls == { i \in DOMAIN requested :
                      requested[i].text = section /\ requested[i].embedding # << >> }
    IN  IF calls = {} THEN [ num |-> 0, den |-> 1 ]
        ELSE LET e == requested[CHOOSE i \in calls : TRUE].embedding
                 j == requested[1].embedding
                 d == GCD(Dot(j, e), Norm(j) * Norm(e))
             IN  [ num |-> Dot(j, e) \div d, den |-> (Norm(j) * Norm(e)) \div d ]

\* C21: when the job description has an embedding, overall_score equals
\* round(100 * (0.5 * skills + 0.3 * experience + 0.2 * education), 1) of the
\* cosine similarities of the sections (0 for an empty section or an empty
\* section embedding), and a section whose vector is the vector of the job
\* description has the component score 100.
WeightedOverallScore ==
    (score_data # None /\ Value(score_data).error = NULL) =>
       LET s == SectionSimilarity("skills")
           x == SectionSimilarity("experience")
           e == SectionSimilarity("education")
           data == Value(score_data)
       IN  /\ 2 * s.den * x.den * e.den * data.overall_score
                 <= 2 * (500 * s.num * x.den * e.den + 300 * x.num * s.den * e.den
                           + 200 * e.num * s.den * x.den) + s.den * x.den * e.den
           /\ 2 * s.den * x.den * e.den * (data.overall_score + 1)
                 > 2 * (500 * s.num * x.den * e.den + 300 * x.num * s.den * e.den
                          + 200 * e.num * s.den * x.den) + s.den * x.den * e.den
           /\ \A i \in DOMAIN requested :
                 (i > 1 /\ requested[i].embedding = requested[1].embedding) =>
                    /\ requested[i].text = "skills" => data.skills_score = 1000
                    /\ requested[i].text = "experience" => data.experience_score = 1000
                    /\ requested[i].text = "education" => data.education_score = 1000

\* skills with the vector of the job description, experience with another
\* vector and education with an empty embedding: 50 + 30 * 63/65 = 79.1
WeightedOverallScoreWitness ==
    /\ score_data # None
    /\ Len(requested) = 4
    /\ Value(score_data).skills_score = 1000
    /\ Value(score_data).experience_score = 969
    /\ Value(score_data).education_score = 0
    /\ Value(score_data).overall_score = 791

====
